---- MODULE Spec2Model ----
(***************************************************************************)
(* Piano Wave Visualizer (src/main.py): the PianoGUI object as a state     *)
(* machine.  One action per Tk event handler; the frequency model and the  *)
(* triangle-wave synthesiser are operators computed as the code computes   *)
(* them.                                                                   *)
(*                                                                         *)
(* Numbers.  The code works in float64.  The model works in exact          *)
(* rationals <<numerator, denominator>> in lowest terms with a positive    *)
(* denominator; 16.35 is 1635/100.  Multiplying by 2^k and dividing a      *)
(* value by itself are exact in float64 too, which is where the claims     *)
(* about the keyboard and the chords say "exactly".  What triangle_wave    *)
(* returns for any float is computed in binary64 itself, rounding          *)
(* included (SpecFloat).                                                   *)
(*                                                                         *)
(* Time axis.  self.t has int(fs * duration) = 2205 points.  The model     *)
(* keeps every n-th point of it, beginning with the first (t = 0).  At     *)
(* the keyboard's frequencies every triangle wave is -1 at t = 0 and       *)
(* within [-1, 1] elsewhere, so the peak of a sum of k waves over the kept *)
(* points is the peak over all points (k), and a sample of the model's     *)
(* buffer is the sample of the program's buffer at the same time value.    *)
(***************************************************************************)
EXTENDS Integers, Sequences, FiniteSets, TLC

VARIABLES
  t,              \* self.t: the time axis
  octave,         \* self.octave
  octave_var,     \* self.octave_var: the text of the octave entry
  held_notes,     \* self.held_notes: set of <<note index, display name>>
  held_buttons,   \* self.held_buttons: note index -> button
  black_buttons,  \* self.black_buttons: list of <<button, note index>>
  rebuilds,       \* how many times update_black_positions rebuilt the black keys
  widgets,        \* per button on screen: its text, bg and the name its bindings captured
  current_wave,   \* self.current_wave: the buffer on display, None before the first
  title,          \* the title of the plot (self.ax.set_title)
  ret             \* the last direct call of a pure method and what it returned

vars == <<t, octave, octave_var, held_notes, held_buttons, black_buttons,
          rebuilds, widgets, current_wave, title, ret>>

gui_vars == <<octave_var, held_notes, held_buttons, black_buttons,
              rebuilds, widgets, current_wave, title>>

-----------------------------------------------------------------------------
(* Bounds of the model *)

\* the synthesiser is checked on every Stride-th point of the 2205-point axis
Stride == 100
\* the keyboard displays every KeyboardStride-th point of it
KeyboardStride == 1000
\* a right-click that would hold one more note than this is not offered
MaxHeld == 2
\* update_black_positions rebuilds the black keys at most this many times
MaxRebuilds == 2

-----------------------------------------------------------------------------
(* Exact rational arithmetic standing for float64 *)

RECURSIVE GCD(_, _)
GCD(a, b) == IF b = 0 THEN a ELSE GCD(b, a % b)

IAbs(a) == IF a < 0 THEN -a ELSE a

Rat(n, d) ==
  LET g == GCD(IAbs(n), IAbs(d))
      s == IF d < 0 THEN -1 ELSE 1
  IN  <<s * (n \div g), s * (d \div g)>>

FromInt(n) == <<n, 1>>

RMul(a, b) ==
  LET g1 == GCD(IAbs(a[1]), b[2])
      g2 == GCD(IAbs(b[1]), a[2])
  IN  <<(a[1] \div g1) * (b[1] \div g2), (a[2] \div g2) * (b[2] \div g1)>>

\* adding an integer leaves a fraction in lowest terms
RAdd(a, b) ==
  IF b[2] = 1 THEN <<a[1] + b[1] * a[2], a[2]>>
  ELSE IF a[2] = 1 THEN <<b[1] + a[1] * b[2], b[2]>>
  ELSE LET g == GCD(a[2], b[2])
       IN  Rat(a[1] * (b[2] \div g) + b[1] * (a[2] \div g), (a[2] \div g) * b[2])

RNeg(a) == <<-a[1], a[2]>>

RSub(a, b) == RAdd(a, RNeg(b))

RAbs(a) == <<IAbs(a[1]), a[2]>>

\* np.floor: round toward negative infinity
RFloor(a) == <<a[1] \div a[2], 1>>

RLt(a, b) ==
  LET g == GCD(a[2], b[2])
  IN  a[1] * (b[2] \div g) < b[1] * (a[2] \div g)

\* a / b for b # 0
RDiv(a, b) == RMul(a, IF b[1] < 0 THEN <<-b[2], -b[1]>> ELSE <<b[2], b[1]>>)

Zero == FromInt(0)
One == FromInt(1)
Two == FromInt(2)
Half == <<1, 2>>

-----------------------------------------------------------------------------
(* __init__: sampling constants and the time axis *)

fs == 44100

duration == <<5, 100>>

\* int(self.fs * self.duration): truncation of a positive product
NumSamples == (fs * duration[1]) \div duration[2]

\* np.linspace(start, stop, num): num points, both ends included
linspace(start, stop, num) ==
  LET step == RDiv(RSub(stop, start), FromInt(num - 1))
  IN  [i \in 1..num |-> RAdd(start, RMul(FromInt(i - 1), step))]

\* every n-th point of an axis, the first one included
Every(n, axis) ==
  [k \in 1..((Len(axis) - 1) \div n + 1) |-> axis[(k - 1) * n + 1]]

\* self.t = np.linspace(0, self.duration, int(self.fs * self.duration))
TimeAxis == linspace(Zero, Rat(duration[1], duration[2]), NumSamples)

-----------------------------------------------------------------------------
(* Frequency model *)

\* self.base_frequencies, indexed from 0 in the code and from 1 here
base_frequencies ==
  << <<1635, 100>>, <<1732, 100>>, <<1835, 100>>, <<1945, 100>>,
     <<2060, 100>>, <<2183, 100>>, <<2312, 100>>, <<2450, 100>>,
     <<2596, 100>>, <<2750, 100>>, <<2914, 100>>, <<3087, 100>> >>

\* the table entry as a number
BaseFreq(note_index) ==
  Rat(base_frequencies[note_index + 1][1], base_frequencies[note_index + 1][2])

\* get_frequency with 2 * octave for 2 ** octave
get_frequency_times(note_index, oct) ==
  RMul(BaseFreq(note_index), FromInt(2 * oct))

get_frequency(note_index, oct) ==
  LET base_freq == BaseFreq(note_index)
  IN  RMul(base_freq, FromInt(2 ^ oct))

\* get_note_frequency without the octave of the key
get_note_frequency_flat(note_index, oct) ==
  RMul(BaseFreq(note_index % 12), FromInt(2 ^ oct))

get_note_frequency(note_index, oct) ==
  LET note_in_octave == note_index % 12
      octave_offset == note_index \div 12
      base_frequency == get_frequency(note_in_octave, oct)
  IN  RMul(base_frequency, FromInt(2 ^ octave_offset))

-----------------------------------------------------------------------------
(* Waveform synthesiser *)

\* the triangle upside down: 1 - 2|..| for 2|..| - 1
triangle_sample_inverted(frequency, time) ==
  LET phase == RMul(time, frequency)
  IN  RSub(One, RMul(Two, RAbs(RMul(Two, RSub(phase, RFloor(RAdd(phase, Half)))))))

triangle_sample(frequency, time) ==
  LET phase == RMul(time, frequency)
  IN  RSub(RMul(Two, RAbs(RMul(Two, RSub(phase, RFloor(RAdd(phase, Half)))))), One)

\* a numpy array: the function written out as a tuple of its elements
Array(f) == SubSeq(f, 1, Len(f))

triangle_wave(frequency, axis) ==
  Array([i \in DOMAIN axis |-> triangle_sample(frequency, axis[i])])

generate_wave(frequency, axis) == triangle_wave(frequency, axis)

\* np.ones_like for np.zeros_like
ones_like(axis) == Array([i \in DOMAIN axis |-> One])

zeros_like(axis) == Array([i \in DOMAIN axis |-> Zero])

\* the loop `for freq in frequencies: wave += triangle_wave(freq, t)` after k rounds
RECURSIVE SumWaves(_, _, _)
SumWaves(frequencies, k, axis) ==
  IF k = 0 THEN zeros_like(axis)
  ELSE LET wave == SumWaves(frequencies, k - 1, axis)
           tw == triangle_wave(frequencies[k], axis)
       IN  Array([i \in DOMAIN axis |-> RAdd(wave[i], tw[i])])

\* np.max(np.abs(wave)) of a non-empty buffer
RECURSIVE MaxAbsFrom(_, _)
MaxAbsFrom(wave, k) ==
  IF k = 1 THEN RAbs(wave[1])
  ELSE LET m == MaxAbsFrom(wave, k - 1)
           a == RAbs(wave[k])
       IN  IF RLt(m, a) THEN a ELSE m

\* np.max(wave) for np.max(np.abs(wave))
MaxPlain(wave) ==
  LET samples == {wave[i] : i \in DOMAIN wave}
  IN  CHOOSE m \in samples : \A a \in samples : ~RLt(m, a)

MaxAbs(wave) == MaxAbsFrom(wave, Len(wave))

\* the sum returned as it is
NormalizeSkipped(wave) == wave

\* if np.max(np.abs(wave)) > 0: wave = wave / np.max(np.abs(wave))
Normalize(wave) ==
  LET peak == MaxAbs(wave)
  IN  IF RLt(Zero, peak)
      THEN Array([i \in DOMAIN wave |-> RDiv(wave[i], peak)])
      ELSE wave

generate_chord_wave(frequencies, axis) ==
  IF frequencies = <<>> THEN zeros_like(axis)
  ELSE Normalize(SumWaves(frequencies, Len(frequencies), axis))

-----------------------------------------------------------------------------
(* binary64.  Where a claim turns on rounding, a float is modelled as IEEE  *)
(* 754 binary64 itself: <<sign, significand, exponent>> standing for        *)
(* (-1)^sign * significand * 2^exponent, the significand a natural number   *)
(* written as its bits, least significant first, of at most 53 bits and     *)
(* odd (zero is <<0, <<>>, 0>>).  Every operation computes the exact result *)
(* and rounds it to nearest, ties to even.  The values used stay far from   *)
(* the overflow and subnormal ranges.                                       *)

\* the bits of a natural number held in an integer
RECURSIVE BitsOf(_)
BitsOf(n) == IF n = 0 THEN <<>> ELSE <<n % 2>> \o BitsOf(n \div 2)

\* bit k of b, counted from 1; 0 outside it
BitAt(b, k) == IF 1 <= k /\ k <= Len(b) THEN b[k] ELSE 0

Max(S) == CHOOSE x \in S : \A y \in S : y <= x

Min(S) == CHOOSE x \in S : \A y \in S : x <= y

\* the places of the 1 bits
Ones(b) == {k \in 1..Len(b) : b[k] = 1}

\* without the zeros at the most significant end
BTrim(b) == IF Ones(b) = {} THEN <<>> ELSE SubSeq(b, 1, Max(Ones(b)))

\* a < b
BLess(a, b) ==
  LET differ == {k \in 1..Len(a) \cup 1..Len(b) : BitAt(a, k) # BitAt(b, k)}
  IN  differ # {} /\ BitAt(b, Max(differ)) = 1

\* a * 2^k
BShl(a, k) == IF a = <<>> THEN a ELSE [i \in 1..k |-> 0] \o a

\* Long arithmetic in limbs of LimbBits bits
LimbBits == 13

LimbBase == 2 ^ LimbBits

RECURSIVE LimbFrom(_, _, _)
LimbFrom(b, first, n) ==
  IF n = 0 THEN 0 ELSE BitAt(b, first) + 2 * LimbFrom(b, first + 1, n - 1)

\* limb j of b, counted from 1
Limb(b, j) == LimbFrom(b, (j - 1) * LimbBits + 1, LimbBits)

NumLimbs(b) == (Len(b) + LimbBits - 1) \div LimbBits

\* the limbs of the number whose limb k is cols[k], an integer of either
\* sign, the number itself being a natural number
RECURSIVE Carried(_, _, _)
Carried(cols, k, carry) ==
  IF k > Len(cols)
  THEN IF carry = 0 THEN <<>> ELSE <<carry % LimbBase>> \o Carried(cols, k, carry \div LimbBase)
  ELSE LET sum == cols[k] + carry
       IN  <<sum % LimbBase>> \o Carried(cols, k + 1, sum \div LimbBase)

\* the bits of the number with these limbs
BitsOfLimbs(limbs) ==
  BTrim([i \in 1..(LimbBits * Len(limbs)) |->
           (limbs[(i - 1) \div LimbBits + 1] \div (2 ^ ((i - 1) % LimbBits))) % 2])

LongestOf(a, b) == IF NumLimbs(a) < NumLimbs(b) THEN NumLimbs(b) ELSE NumLimbs(a)

BAdd(a, b) ==
  BitsOfLimbs(Carried([k \in 1..LongestOf(a, b) |-> Limb(a, k) + Limb(b, k)], 1, 0))

\* a - b for a >= b
BSub(a, b) ==
  BitsOfLimbs(Carried([k \in 1..LongestOf(a, b) |-> Limb(a, k) - Limb(b, k)], 1, 0))

\* a * b for factors of at most 53 bits: column k of the long multiplication
\* holds the products of the limbs i of a and j of b with i + j = k + 1
RECURSIVE ColumnFrom(_, _, _, _)
ColumnFrom(a, b, k, i) ==
  IF i > NumLimbs(a) THEN 0
  ELSE Limb(a, i) * Limb(b, k + 1 - i) + ColumnFrom(a, b, k, i + 1)

BMul(a, b) ==
  IF a = <<>> \/ b = <<>> THEN <<>>
  ELSE BitsOfLimbs(Carried([k \in 1..(NumLimbs(a) + NumLimbs(b) - 1) |->
                              ColumnFrom(a, b, k, 1)], 1, 0))

\* the number of zero bits at the least significant end of a non-zero b
LowZeros(b) == Min(Ones(b)) - 1

\* (-1)^sign * m * 2^e with the significand made odd
F64Canonical(sign, m, e) ==
  IF m = <<>> THEN <<0, <<>>, 0>>
  ELSE LET z == LowZeros(m)
       IN  <<sign, SubSeq(m, z + 1, Len(m)), e + z>>

\* the binary64 nearest to (-1)^sign * m * 2^e, ties to the even significand
Round64(sign, m, e) ==
  IF Len(m) <= 53 THEN F64Canonical(sign, m, e)
  ELSE LET r == Len(m) - 53
           kept == SubSeq(m, r + 1, Len(m))
           half == m[r] = 1
           sticky == \E i \in 1..(r - 1) : m[i] = 1
           up == half /\ (sticky \/ kept[1] = 1)
       IN  F64Canonical(sign, IF up THEN BAdd(kept, <<1>>) ELSE kept, e + r)

\* the float of a small integer
F64Int(n) == F64Canonical(IF n < 0 THEN 1 ELSE 0, BitsOf(IAbs(n)), 0)

F64Neg(a) == IF a[2] = <<>> THEN a ELSE <<1 - a[1], a[2], a[3]>>

F64Abs(a) == <<0, a[2], a[3]>>

\* the exact product and the exact sum, as <<sign, significand, exponent>>
\* of any length
ExactMul(a, b) == <<(a[1] + b[1]) % 2, BMul(a[2], b[2]), a[3] + b[3]>>

ExactAdd(a, b) ==
  LET e == IF a[3] < b[3] THEN a[3] ELSE b[3]
      ma == BShl(a[2], a[3] - e)
      mb == BShl(b[2], b[3] - e)
  IN  IF a[1] = b[1] THEN <<a[1], BAdd(ma, mb), e>>
      ELSE IF BLess(ma, mb) THEN <<b[1], BSub(mb, ma), e>>
      ELSE <<a[1], BSub(ma, mb), e>>

Rounded(x) == Round64(x[1], x[2], x[3])

F64Mul(a, b) == Rounded(ExactMul(a, b))

F64Add(a, b) == Rounded(ExactAdd(a, b))

F64Sub(a, b) == F64Add(a, F64Neg(b))

\* np.floor: the largest integer not above a
F64Floor(a) ==
  IF a[3] >= 0 THEN a
  ELSE LET whole == SubSeq(a[2], 1 - a[3], Len(a[2]))
       IN  IF a[1] = 0 THEN F64Canonical(0, whole, 0)
           ELSE F64Canonical(1, BAdd(whole, <<1>>), 0)

\* |a| <= 1
F64WithinOne(a) ==
  \/ a[2] = <<>>
  \/ Len(a[2]) + a[3] <= 0
  \/ a[2] = <<1>> /\ a[3] = 0

\* the positive binary64 (hi * 2^27 + lo) * 2^e, for hi < 2^26 and lo < 2^27
F64Parts(hi, lo, e) ==
  F64Canonical(0, BAdd(BShl(BitsOf(hi), 27), BitsOf(lo)), e)

\* x is the binary64 a decimal literal n/d > 0 is read as: no binary64 is
\* nearer to n/d.  With x = m * 2^e, m of 53 bits: 2 * |m * d - n * 2^-e| <= d
IsLiteral(x, n, d) ==
  LET pad == 53 - Len(x[2])
      m == BShl(x[2], pad)
      e == x[3] - pad
      md == BMul(m, BitsOf(d))
      ne == IF e <= 0 THEN BShl(BitsOf(n), -e) ELSE BitsOf(n)
      gap == IF BLess(md, ne) THEN BSub(ne, md) ELSE BSub(md, ne)
  IN  e <= 0 /\ ~BLess(BitsOf(d), BShl(gap, 1))

\* triangle_wave on one element of a binary64 array
triangle_sample_float64(frequency, time) ==
  LET phase == F64Mul(time, frequency)
      two == F64Int(2)
      half == <<0, <<1>>, -1>>
  IN  F64Sub(F64Mul(two, F64Abs(F64Mul(two,
               F64Sub(phase, F64Floor(F64Add(phase, half)))))), F64Int(1))

triangle_wave_float64(frequency, axis) ==
  Array([i \in DOMAIN axis |-> triangle_sample_float64(frequency, axis[i])])

-----------------------------------------------------------------------------
(* Text: str(int), int(str) and the note names *)

DigitChars == <<"0", "1", "2", "3", "4", "5", "6", "7", "8", "9">>

IsDigit(c) == \E d \in 1..10 : DigitChars[d] = c

DigitValue(c) == (CHOOSE d \in 1..10 : DigitChars[d] = c) - 1

\* str(n) of a non-negative integer, as a sequence of characters
RECURSIVE StrNat(_)
StrNat(n) ==
  IF n < 10 THEN <<DigitChars[n + 1]>>
  ELSE StrNat(n \div 10) \o <<DigitChars[(n % 10) + 1]>>

\* str(n), as a sequence of characters
str(n) == IF n < 0 THEN <<"-">> \o StrNat(-n) ELSE StrNat(n)

\* text.strip(): leading and trailing blanks removed
RECURSIVE LStrip(_)
LStrip(s) == IF s # <<>> /\ Head(s) = " " THEN LStrip(Tail(s)) ELSE s

RECURSIVE RStrip(_)
RStrip(s) ==
  IF s # <<>> /\ s[Len(s)] = " " THEN RStrip(SubSeq(s, 1, Len(s) - 1)) ELSE s

\* the digits of an integer literal: digits, with single underscores between them
IsDigits(s) ==
  /\ s # <<>>
  /\ IsDigit(s[1])
  /\ IsDigit(s[Len(s)])
  /\ \A i \in 1..Len(s) : IsDigit(s[i]) \/ s[i] = "_"
  /\ \A i \in 1..(Len(s) - 1) : ~(s[i] = "_" /\ s[i + 1] = "_")

RECURSIVE DigitsValue(_, _)
DigitsValue(s, acc) ==
  IF s = <<>> THEN acc
  ELSE IF Head(s) = "_" THEN DigitsValue(Tail(s), acc)
  ELSE DigitsValue(Tail(s), 10 * acc + DigitValue(Head(s)))

\* int(text): [ok |-> TRUE, value |-> n], or [ok |-> FALSE] for ValueError
int(text) ==
  LET stripped == RStrip(LStrip(text))
      signed == stripped # <<>> /\ Head(stripped) \in {"+", "-"}
      body == IF signed THEN Tail(stripped) ELSE stripped
      sign == IF signed /\ Head(stripped) = "-" THEN -1 ELSE 1
  IN  IF IsDigits(body)
      THEN [ok |-> TRUE, value |-> sign * DigitsValue(body, 0)]
      ELSE [ok |-> FALSE, value |-> 0]

note_names == <<"C", "C#", "D", "D#", "E", "F", "F#", "G", "G#", "A", "A#", "B">>

\* [0, 2, 4, 5, 7, 9, 11] * 2
white_keys == <<0, 2, 4, 5, 7, 9, 11, 0, 2, 4, 5, 7, 9, 11>>

\* [1, 3, 6, 8, 10] * 2
black_note_indices == <<1, 3, 6, 8, 10, 1, 3, 6, 8, 10>>

\* f"{note_name}{self.octave + octave_offset}"
full_note_name(note_idx, oct, octave_offset) ==
  note_names[note_idx + 1] \o ToString(oct + octave_offset)

\* ", ".join(names)
RECURSIVE Join(_)
Join(names) ==
  IF Len(names) = 1 THEN names[1]
  ELSE names[1] \o ", " \o Join(Tail(names))

-----------------------------------------------------------------------------
(* Buttons.  A button is <<kind, position, generation>>; the white buttons  *)
(* are made once (generation 0), the black ones anew at every rebuild.      *)

WhiteButton(i) == <<"white", i, 0>>

BlackButton(pos_idx, gen) == <<"black", pos_idx, gen>>

\* self.white_buttons as setup_piano leaves it: (btn, global_note_idx), i from 0
white_buttons ==
  [k \in 1..14 |->
     LET i == k - 1
         note_idx == white_keys[k]
         octave_offset == i \div 7
     IN  <<WhiteButton(i), note_idx + octave_offset * 12>>]

\* the widgets setup_piano creates for the white keys
WhiteWidgets(oct) ==
  [b \in {WhiteButton(i) : i \in 0..13} |->
     LET i == b[2]
         name == full_note_name(white_keys[i + 1], oct, i \div 7)
     IN  [text |-> name, bg |-> "white", name |-> name]]

-----------------------------------------------------------------------------
(* State after PianoGUI.__init__ *)

\* self.current_wave = None: no buffer (a buffer has as many samples as self.t)
None == <<>>

\* self.held_buttons = {}
EmptyDict == <<>>

InitGUI ==
  /\ t = Every(KeyboardStride, TimeAxis)
  /\ octave_var = str(4)
  /\ held_notes = {}
  /\ held_buttons = EmptyDict
  /\ black_buttons = <<>>
  /\ rebuilds = 0
  /\ widgets = WhiteWidgets(4)
  /\ current_wave = None
  /\ title = "Sound Wave Visualization"
  /\ ret = [op |-> "none"]

Init == octave = 4 /\ InitGUI

-----------------------------------------------------------------------------
(* Display *)

\* the title update_wave_display sets; is_list is isinstance(note_names, list)
TitleOf(names, is_list) ==
  IF is_list
  THEN IF Len(names) > 1 THEN "Chord: " \o Join(names) ELSE "Note: " \o names[1]
  ELSE "Note: " \o names

update_wave_display(wave, names, is_list) ==
  /\ title' = TitleOf(names, is_list)
  /\ current_wave' = wave

\* the orders in which `for ... in self.held_notes` may visit a set
Orders(S) ==
  {f \in [1..Cardinality(S) -> S] : \A i, j \in DOMAIN f : i # j => f[i] # f[j]}

\* the display refreshed from the held notes as they were before the click
update_display_before_change(held) ==
  IF held_notes = {}
  THEN update_wave_display(zeros_like(t), "No notes", FALSE)
  ELSE \E order \in Orders(held_notes) :
         LET frequencies == [k \in DOMAIN order |-> get_note_frequency(order[k][1], octave)]
             names == [k \in DOMAIN order |-> order[k][2]]
         IN  update_wave_display(generate_chord_wave(frequencies, t), names, TRUE)

\* runs on the held notes the handler has just written
update_display_from_held_notes(held) ==
  IF held = {}
  THEN update_wave_display(zeros_like(t), "No notes", FALSE)
  ELSE \E order \in Orders(held) :
         LET frequencies == [k \in DOMAIN order |-> get_note_frequency(order[k][1], octave)]
             names == [k \in DOMAIN order |-> order[k][2]]
         IN  update_wave_display(generate_chord_wave(frequencies, t), names, TRUE)

-----------------------------------------------------------------------------
(* Click handlers *)

\* the key played in the octave of the entry, whichever octave it is in
play_note_left_click_low(note_index, note_name, button) ==
  LET frequency == get_frequency(note_index % 12, octave)
      wave == generate_wave(frequency, t)
  IN  /\ update_wave_display(wave, <<note_name>>, TRUE)
      /\ UNCHANGED <<t, octave, octave_var, held_notes, held_buttons,
                     black_buttons, rebuilds, widgets, ret>>

play_note_left_click(note_index, note_name, button) ==
  LET frequency == get_note_frequency(note_index, octave)
      wave == generate_wave(frequency, t)
  IN  /\ update_wave_display(wave, <<note_name>>, TRUE)
      /\ UNCHANGED <<t, octave, octave_var, held_notes, held_buttons,
                     black_buttons, rebuilds, widgets, ret>>

\* the resting colour with the two semitone classes taken for each other
RestingColourSwapped(note_index) ==
  IF (note_index % 12) \in {1, 3, 6, 8, 10} THEN "white" ELSE "#1a1a1a"

\* the resting colour release_note infers from the semitone class
RestingColour(note_index) ==
  IF (note_index % 12) \in {0, 2, 4, 5, 7, 9, 11} THEN "white" ELSE "#1a1a1a"

\* what release_note can leave in held_notes, held_buttons and the buttons'
\* widgets: the loop over the set stops at the first pair of the note index
after_release_note(held, buttons, wdg, note_index, button) ==
  LET found == {pair \in held : pair[1] = note_index}
      current_bg == wdg[button].bg
      remaining == IF found = {} THEN {held}
                   ELSE {held \ {note_to_remove} : note_to_remove \in found}
  IN  {[held_notes |-> rest,
        held_buttons |-> [i \in DOMAIN buttons \ {note_index} |-> buttons[i]],
        widgets |-> IF current_bg \in {"#cccccc", "#444444"}
                    THEN [wdg EXCEPT ![button].bg = RestingColour(note_index)]
                    ELSE wdg] : rest \in remaining}

release_note(note_index, button) ==
  \E after \in after_release_note(held_notes, held_buttons, widgets, note_index, button) :
    /\ held_notes' = after.held_notes
    /\ held_buttons' = after.held_buttons
    /\ widgets' = after.widgets
    /\ update_display_from_held_notes(held_notes')

\* what hold_note_right_click can leave in held_notes, held_buttons and the
\* buttons' widgets
after_hold_note_right_click(held, buttons, wdg, note_index, note_name, button) ==
  IF <<note_index, note_name>> \in held
  THEN after_release_note(held, buttons, wdg, note_index, button)
  ELSE {[held_notes |-> held \cup {<<note_index, note_name>>},
         held_buttons |-> [i \in DOMAIN buttons \cup {note_index} |->
                             IF i = note_index THEN button ELSE buttons[i]],
         widgets |-> [wdg EXCEPT ![button].bg =
                        IF wdg[button].bg = "white" THEN "#cccccc" ELSE "#444444"]]}

hold_note_right_click(note_index, note_name, button) ==
  /\ IF <<note_index, note_name>> \in held_notes
     THEN release_note(note_index, button)
     ELSE \E after \in after_hold_note_right_click(held_notes, held_buttons, widgets,
                                                   note_index, note_name, button) :
            /\ held_notes' = after.held_notes
            /\ held_buttons' = after.held_buttons
            /\ widgets' = after.widgets
            /\ update_display_from_held_notes(held_notes')
  /\ UNCHANGED <<t, octave, octave_var, black_buttons, rebuilds, ret>>

-----------------------------------------------------------------------------
(* Octave entry *)

\* the widget of button b after update_piano_labels, which keeps its colour
Relabelled(b, w, oct) ==
  IF \E k \in DOMAIN white_buttons : white_buttons[k][1] = b
  THEN LET k == CHOOSE k \in DOMAIN white_buttons : white_buttons[k][1] = b
           i == k - 1
           full == full_note_name(white_keys[k], oct, i \div 7)
       IN  [text |-> full, bg |-> w.bg, name |-> full]
  ELSE IF \E k \in DOMAIN black_buttons : black_buttons[k][1] = b
  THEN LET k == CHOOSE k \in DOMAIN black_buttons : black_buttons[k][1] = b
           i == k - 1
           full == full_note_name(black_note_indices[k], oct, i \div 5)
       IN  [text |-> full, bg |-> w.bg, name |-> full]
  ELSE w

update_piano_labels(oct) ==
  widgets' = [b \in DOMAIN widgets |-> Relabelled(b, widgets[b], oct)]

\* an octave change that also lets go of every held note
on_octave_change_clearing(text) ==
  LET parsed == int(text)
      new_octave == parsed.value
  IN  /\ IF parsed.ok /\ 0 <= new_octave /\ new_octave <= 8
         THEN /\ octave' = new_octave
              /\ octave_var' = text
              /\ update_piano_labels(new_octave)
              /\ held_notes' = {}
         ELSE /\ octave_var' = str(octave)
              /\ UNCHANGED <<octave, widgets, held_notes>>
      /\ UNCHANGED <<t, held_buttons, black_buttons, rebuilds, current_wave, title, ret>>

\* the range check one too wide: 0 <= new_octave <= 9
on_octave_change_to_nine(text) ==
  LET parsed == int(text)
      new_octave == parsed.value
  IN  /\ IF parsed.ok /\ 0 <= new_octave /\ new_octave <= 9
         THEN /\ octave' = new_octave
              /\ octave_var' = text
              /\ update_piano_labels(new_octave)
         ELSE /\ octave_var' = str(octave)
              /\ UNCHANGED <<octave, widgets>>
      /\ UNCHANGED <<t, held_notes, held_buttons, black_buttons, rebuilds,
                     current_wave, title, ret>>

\* the entry holds `text` when Return or Update runs the handler
on_octave_change(text) ==
  LET parsed == int(text)
      new_octave == parsed.value
  IN  /\ IF parsed.ok
         THEN IF 0 <= new_octave /\ new_octave <= 8
              THEN /\ octave' = new_octave
                   /\ octave_var' = text
                   /\ update_piano_labels(new_octave)
              ELSE /\ octave_var' = str(octave)
                   /\ UNCHANGED <<octave, widgets>>
         ELSE /\ octave_var' = str(octave)
              /\ UNCHANGED <<octave, widgets>>
      /\ UNCHANGED <<t, held_notes, held_buttons, black_buttons, rebuilds,
                     current_wave, title, ret>>

-----------------------------------------------------------------------------
(* Black keys: setup_piano's update_black_positions *)

black_key_positions == <<0, 1, 3, 4, 5, 7, 8, 10, 11, 12>>

update_black_positions(canvas_width) ==
  IF canvas_width < 10 \/ white_buttons = <<>>
  THEN UNCHANGED vars
  ELSE LET gen == rebuilds + 1
           made == [k \in DOMAIN black_key_positions |->
                      LET pos_idx == k - 1
                          note_idx == black_note_indices[k]
                          octave_offset == pos_idx \div 5
                      IN  [btn |-> BlackButton(pos_idx, gen),
                           idx |-> note_idx + octave_offset * 12,
                           name |-> full_note_name(note_idx, octave, octave_offset)]]
           whites == {white_buttons[k][1] : k \in DOMAIN white_buttons}
           blacks == {made[k].btn : k \in DOMAIN made}
       IN  /\ rebuilds' = gen
           /\ black_buttons' = [k \in DOMAIN made |-> <<made[k].btn, made[k].idx>>]
           /\ widgets' = [b \in whites \cup blacks |->
                            IF b \in whites THEN widgets[b]
                            ELSE LET k == CHOOSE k \in DOMAIN made : made[k].btn = b
                                 IN  [text |-> made[k].name, bg |-> "#1a1a1a",
                                      name |-> made[k].name]]
           /\ UNCHANGED <<t, octave, octave_var, held_notes, held_buttons,
                          current_wave, title, ret>>

-----------------------------------------------------------------------------------------------------------------------------------------------------
(* Events of the Tk main loop, each handled to completion *)

\* the buttons on screen with the note index their bindings captured
Keyboard ==
  {white_buttons[k] : k \in DOMAIN white_buttons}
    \cup {black_buttons[k] : k \in DOMAIN black_buttons}

\* <Button-1> on a key whose note index is in `keys`
Button1(keys) ==
  \E key \in Keyboard :
    /\ key[2] \in keys
    /\ play_note_left_click(key[2], widgets[key[1]].name, key[1])

\* <Button-3> on a key whose note index is in `keys`
Button3(keys) ==
  \E key \in Keyboard :
    /\ key[2] \in keys
    /\ \/ <<key[2], widgets[key[1]].name>> \in held_notes
       \/ Cardinality(held_notes) < MaxHeld
    /\ hold_note_right_click(key[2], widgets[key[1]].name, key[1])

\* <Return> or Update with one of `texts`, or the text left there, in the entry
Submit(texts) ==
  \E text \in texts \cup {octave_var} : on_octave_change(text)

\* the widths winfo_width reports: before the canvas is laid out, and after
CanvasWidths == {1, 960}

\* <Configure> of the black-key canvas, or the after(100, ...) callback
Configure ==
  \E canvas_width \in CanvasWidths :
    /\ canvas_width >= 10 => rebuilds < MaxRebuilds
    /\ update_black_positions(canvas_width)

-----------------------------------------------------------------------------
(* Spec: the keyboard.  The user clicks C, E and the upper C#, and submits *)
(* one other octave and three texts the handler rejects.                   *)

UserKeys == {0, 4, 13}

EntryTexts == { <<"5">>, <<"9">>, <<"4", ".", "5">>, <<>> }

LeftClick == Button1(UserKeys)

RightClick == Button3(UserKeys)

OctaveSubmit == Submit(EntryTexts)

Next == LeftClick \/ RightClick \/ OctaveSubmit \/ Configure

Spec == Init /\ [][Next]_vars

-----------------------------------------------------------------------------
(* SpecOctave: the octave entry.  The user submits texts of every kind and *)
(* left-clicks two keys.  Each submission is listed with what Python's     *)
(* int() makes of it.                                                      *)

OctaveSubmissions ==
  { [text |-> <<"0">>,           integer |-> TRUE,  value |-> 0],
    [text |-> <<"8">>,           integer |-> TRUE,  value |-> 8],
    [text |-> <<"+", "3">>,      integer |-> TRUE,  value |-> 3],
    [text |-> <<" ", "5", " ">>, integer |-> TRUE,  value |-> 5],
    [text |-> <<"0", "_", "7">>, integer |-> TRUE,  value |-> 7],
    [text |-> <<"9">>,           integer |-> TRUE,  value |-> 9],
    [text |-> <<"1", "0">>,      integer |-> TRUE,  value |-> 10],
    [text |-> <<"-", "1">>,      integer |-> TRUE,  value |-> -1],
    [text |-> <<"8", ".", "0">>, integer |-> FALSE, value |-> 0],
    [text |-> <<"-", " ", "1">>, integer |-> FALSE, value |-> 0],
    [text |-> <<"a", "b", "c">>, integer |-> FALSE, value |-> 0],
    [text |-> <<>>,              integer |-> FALSE, value |-> 0] }

OctaveTexts == {s.text : s \in OctaveSubmissions}

OctaveKeys == {0, 13}

OctaveEntry == Submit(OctaveTexts)

KeyClick == Button1(OctaveKeys)

Layout == Configure

NextOctave == OctaveEntry \/ KeyClick \/ Layout

SpecOctave == Init /\ [][NextOctave]_vars

-----------------------------------------------------------------------------
(* SpecSynth: the frequency model and the synthesiser called directly, at  *)
(* any octave the entry accepts.                                           *)

\* the longest list of frequencies handed to generate_chord_wave
MaxChord == 2

\* the keys whose frequencies are synthesised: C, and the upper C# and B
SynthKeys == {0, 13, 23}

\* other frequencies: 440 Hz, 1/20 Hz (its period is longer than the axis),
\* 22040 Hz (half a period per step of the axis) and 100/3 Hz
OtherFrequencies == {<<440, 1>>, <<1, 20>>, <<22040, 1>>, <<100, 3>>}

Frequencies ==
  {get_note_frequency(idx, octave) : idx \in SynthKeys} \cup OtherFrequencies

\* the time arrays handed to triangle_wave: self.t and the one-point array [0]
Axes == {t, <<Zero>>}

\* the lists of at most n frequencies
ChordsUpTo(n) == UNION {[1..k -> Frequencies] : k \in 0..n}

\* no method has been called yet
Idle == ret.op = "none"

InitSynth ==
  /\ octave \in 0..8
  /\ t = Every(Stride, TimeAxis)
  /\ octave_var = str(octave)
  /\ held_notes = {}
  /\ held_buttons = EmptyDict
  /\ black_buttons = <<>>
  /\ rebuilds = 0
  /\ widgets = WhiteWidgets(octave)
  /\ current_wave = None
  /\ title = "Sound Wave Visualization"
  /\ ret = [op |-> "none"]

CallGetFrequency ==
  \E note_index \in 0..11 :
    /\ Idle
    /\ ret' = [op |-> "get_frequency", note_index |-> note_index,
               value |-> get_frequency(note_index, octave)]
    /\ UNCHANGED <<t, octave, gui_vars>>

CallGetNoteFrequency ==
  \E note_index \in 0..23 :
    /\ Idle
    /\ ret' = [op |-> "get_note_frequency", note_index |-> note_index,
               value |-> get_note_frequency(note_index, octave)]
    /\ UNCHANGED <<t, octave, gui_vars>>

CallTriangleWave ==
  \E frequency \in Frequencies, axis \in Axes :
    /\ Idle
    /\ ret' = [op |-> "triangle_wave", frequency |-> frequency, axis |-> axis,
               value |-> triangle_wave(frequency, axis)]
    /\ UNCHANGED <<t, octave, gui_vars>>

CallGenerateWave ==
  \E frequency \in Frequencies :
    /\ Idle
    /\ ret' = [op |-> "generate_wave", frequency |-> frequency,
               value |-> generate_wave(frequency, t)]
    /\ UNCHANGED <<t, octave, gui_vars>>

CallGenerateChordWave ==
  \E frequencies \in ChordsUpTo(MaxChord) :
    /\ Idle
    /\ ret' = [op |-> "generate_chord_wave", frequencies |-> frequencies,
               value |-> generate_chord_wave(frequencies, t)]
    /\ UNCHANGED <<t, octave, gui_vars>>

NextSynth ==
  \/ CallGetFrequency
  \/ CallGetNoteFrequency
  \/ CallTriangleWave
  \/ CallGenerateWave
  \/ CallGenerateChordWave

SpecSynth == InitSynth /\ [][NextSynth]_vars

-----------------------------------------------------------------------------
(* SpecFloat: triangle_wave called directly on binary64 arguments, a       *)
(* frequency and an array of two time values.                              *)

\* the literal 16.35 of base_frequencies: 0x1.059999999999ap+4
C0Float == F64Parts(17144217, 80530637, -47)

\* the literal 0.05 of self.duration, the last point of self.t:
\* 0x1.999999999999ap-5
DurationFloat == F64Parts(26843545, 80530637, -56)

\* 2^52 and 2^52 + 1
TwoTo52 == <<0, <<1>>, 52>>

TwoTo52Plus1 == F64Add(TwoTo52, F64Int(1))

\* 1 Hz, 4 Hz, 440 Hz (A at octave 4), 261.6 Hz (C at octave 4), 2^52 + 1 Hz
\* and 2^52 Hz
FloatFrequencies ==
  { F64Int(1), F64Int(4), F64Int(440), F64Mul(C0Float, F64Int(16)),
    TwoTo52Plus1, TwoTo52 }

\* 0, 1/8, 1/4, 3/8, 5/4 and 1 s, the last point of self.t, 2^52 and 2^52 + 1 s
FloatTimes ==
  { F64Int(0), <<0, <<1>>, -3>>, <<0, <<1>>, -2>>, <<0, <<1, 1>>, -3>>,
    <<0, <<1, 0, 1>>, -2>>, F64Int(1), DurationFloat, TwoTo52, TwoTo52Plus1 }

InitFloat ==
  /\ Init
  /\ IsLiteral(C0Float, 1635, 100)
  /\ IsLiteral(DurationFloat, 5, 100)

CallTriangleWaveFloat ==
  \E frequency \in FloatFrequencies, time1 \in FloatTimes, time2 \in FloatTimes :
    /\ Idle
    /\ ret' = [op |-> "triangle_wave", frequency |-> frequency,
               axis |-> <<time1, time2>>,
               value |-> triangle_wave_float64(frequency, <<time1, time2>>)]
    /\ UNCHANGED <<t, octave, gui_vars>>

NextFloat == CallTriangleWaveFloat

SpecFloat == InitFloat /\ [][NextFloat]_vars

-----------------------------------------------------------------------------
(* Held notes and the display (Spec) *)

\* C1: held_notes holds at most one (note index, display name) pair for any
\* note index, whatever the clicks and octave changes.
C1_OnePairPerIndex ==
  \A p, q \in held_notes : p[1] = q[1] => p = q

\* the title for the names in the order `names`
LabelOf(names) ==
  IF Len(names) >= 2 THEN "Chord: " \o Join(names) ELSE "Note: " \o names[1]

\* the display shows the notes `held` at octave `oct`: the chord wave of their
\* frequencies and the label of their names, in one order of the set; for no
\* notes the zero buffer and `empty_title`
Shows(held, oct, axis, wave, shown_title, empty_title) ==
  IF held = {}
  THEN /\ wave = [i \in DOMAIN axis |-> Zero]
       /\ shown_title = empty_title
  ELSE \E order \in Orders(held) :
         /\ shown_title = LabelOf([k \in DOMAIN order |-> order[k][2]])
         /\ wave = generate_chord_wave(
                     [k \in DOMAIN order |-> get_note_frequency(order[k][1], oct)], axis)

\* C2, as stated: right after every right-click the display shows exactly the
\* held notes, resolved at the current octave; for no held notes the zero
\* buffer with the label text 'No notes'.
C2_DisplayAfterToggle_AsStated ==
  [][RightClick => Shows(held_notes', octave', t', current_wave', title', "No notes")]_vars

\* C2, amended: right after every right-click the display shows exactly the
\* held notes, resolved at the current octave; for no held notes the zero
\* buffer with the title 'Note: No notes'.
C2_DisplayAfterToggle ==
  [][RightClick => Shows(held_notes', octave', t', current_wave', title', "Note: No notes")]_vars

\* C4 and E4 are held at octave 4 and the display shows their chord
C2_Witness ==
  /\ held_notes = {<<0, "C4">>, <<4, "E4">>}
  /\ octave = 4
  /\ title \in {"Chord: C4, E4", "Chord: E4, C4"}
  /\ current_wave = generate_chord_wave(<<<<1308, 5>>, <<1648, 5>>>>, t)
  /\ MaxAbs(current_wave) = One

\* the two sets differ by exactly one element
OneApart(a, b) == Cardinality((a \ b) \cup (b \ a)) = 1

\* C3: held_notes starts empty; a left-click and an octave submission leave
\* it unchanged; every right-click adds one pair or removes one pair; and
\* nothing else changes it.
C3_OnlyToggleChangesHeld ==
  /\ held_notes = {}
  /\ [][ /\ held_notes' = held_notes \/ ~(LeftClick \/ OctaveSubmit)
         /\ OneApart(held_notes, held_notes') \/ ~RightClick
         /\ held_notes' = held_notes \/ RightClick ]_vars

\* C is held since octave 4; the octave is now 5 and E5 was left-clicked
C3_Witness ==
  /\ held_notes = {<<0, "C4">>}
  /\ octave = 5
  /\ title = "Note: E5"

-----------------------------------------------------------------------------
(* The octave entry (SpecOctave) *)

\* what int() makes of a text that can be in the entry: a submitted text, or
\* the decimal string of an octave
EntryOracle ==
  OctaveSubmissions
    \cup {[text |-> <<DigitChars[d + 1]>>, integer |-> TRUE, value |-> d] : d \in 0..8}

\* the decimal strings of the octaves 0..8
OctaveString ==
  << <<"0">>, <<"1">>, <<"2">>, <<"3">>, <<"4">>, <<"5">>, <<"6">>, <<"7">>, <<"8">> >>

\* C6: the octave is always in 0..8; a submission that is no integer, or an
\* integer outside 0..8, leaves the octave and resets the entry to its decimal
\* string; a submission of an integer in 0..8 sets the octave to it.
C6_OctaveEntry ==
  /\ [](octave \in 0..8)
  /\ [][\A s \in EntryOracle :
          on_octave_change(s.text) =>
            IF s.integer /\ s.value \in 0..8
            THEN octave' = s.value
            ELSE octave' = octave /\ octave_var' = OctaveString[octave + 1]]_vars

\* octave 3 is only ever typed as "+3": the entry shows "3" after a reset
C6_Witness ==
  /\ octave = 3
  /\ octave_var = <<"3">>

-----------------------------------------------------------------------------
(* The frequency model and the synthesiser (SpecSynth) *)

\* C4: get_note_frequency(idx) is base_frequencies[idx mod 12] * 2^octave *
\* 2^(idx div 12): get_frequency(idx) for idx in 0..11, and twice
\* get_frequency(idx - 12) for idx in 12..23.
C4_NoteFrequency ==
  ret.op = "get_note_frequency" =>
    LET idx == ret.note_index
        table == base_frequencies[(idx % 12) + 1]
    IN  /\ ret.value = RMul(RMul(Rat(table[1], table[2]), FromInt(2 ^ octave)),
                            FromInt(2 ^ (idx \div 12)))
        /\ idx \in 0..11 => ret.value = get_frequency(idx, octave)
        /\ idx \in 12..23 => ret.value = RMul(Two, get_frequency(idx - 12, octave))

\* the upper C# at octave 4: 17.32 * 2^4 * 2 = 554.24 Hz
C4_Witness ==
  /\ ret.op = "get_note_frequency"
  /\ ret.note_index = 13
  /\ octave = 4
  /\ ret.value = <<13856, 25>>

\* C5: get_frequency(n) one octave up is exactly twice get_frequency(n), for
\* the octaves 0..7, and at octave 0 it is the table entry.
C5_OctaveDoubling ==
  ret.op = "get_frequency" =>
    LET n == ret.note_index
        table == base_frequencies[n + 1]
    IN  /\ octave = 0 => ret.value = Rat(table[1], table[2])
        /\ octave \in 0..7 => get_frequency(n, octave + 1) = RMul(Two, ret.value)

\* A at octave 4: 27.50 * 2^4 = 440 Hz
C5_Witness ==
  /\ ret.op = "get_frequency"
  /\ ret.note_index = 9
  /\ octave = 4
  /\ ret.value = <<440, 1>>

\* the sum of the triangle waves before it is normalised
UnnormalizedSum(frequencies, axis) == SumWaves(frequencies, Len(frequencies), axis)

\* C7: for a non-empty list of frequencies whose unnormalised sum is non-zero
\* somewhere, the buffer generate_chord_wave returns has peak |sample| 1.
C7_ChordPeakIsOne ==
  (/\ ret.op = "generate_chord_wave"
   /\ ret.frequencies # <<>>
   /\ \E i \in DOMAIN t : UnnormalizedSum(ret.frequencies, t)[i] # Zero)
    => /\ \E i \in DOMAIN ret.value : RAbs(ret.value[i]) = One
       /\ \A i \in DOMAIN ret.value : ~RLt(One, RAbs(ret.value[i]))

\* a chord of two different frequencies whose sum peaks at 2 before normalisation
C7_Witness ==
  /\ ret.op = "generate_chord_wave"
  /\ Len(ret.frequencies) = 2
  /\ ret.frequencies[1] # ret.frequencies[2]
  /\ MaxAbs(UnnormalizedSum(ret.frequencies, t)) = Two
  /\ MaxAbs(ret.value) = One

C9_EmptyChordIsZero ==
  (ret.op = "generate_chord_wave" /\ ret.frequencies = <<>>) =>
    /\ Len(ret.value) = Len(t)
    /\ \A i \in 1..Len(ret.value) : ret.value[i] = Zero

C9_Witness ==
  /\ ret.op = "generate_chord_wave"
  /\ ret.frequencies = <<>>
  /\ Len(ret.value) = Len(t)
  /\ Len(t) > 1

\* C10: triangle_wave(f, t) is exactly -1 wherever t is 0.
C10_MinusOneAtZero ==
  ret.op = "triangle_wave" =>
    \A i \in DOMAIN ret.axis : ret.axis[i] = Zero => ret.value[i] = <<-1, 1>>

\* triangle_wave(440, [0]) = [-1]
C10_Witness ==
  /\ ret.op = "triangle_wave"
  /\ ret.frequency = <<440, 1>>
  /\ ret.axis = <<Zero>>
  /\ ret.value = << <<-1, 1>> >>

-----------------------------------------------------------------------------
(* triangle_wave in binary64 (SpecFloat) *)

\* C11: for every frequency f > 0 and every time t >= 0, the sample
\* 2*|2*(t*f - floor(t*f + 0.5))| - 1 that triangle_wave computes lies in
\* [-1, 1].
C11_SampleWithinOne ==
  ret.op = "triangle_wave" =>
    \A i \in DOMAIN ret.value : F64WithinOne(ret.value[i])

\* the times are exactly one period apart: (time2 - time1) * frequency = 1
OnePeriodApart(frequency, time1, time2) ==
  LET apart == ExactAdd(time2, F64Neg(time1))
      turns == ExactMul(apart, frequency)
  IN  F64Canonical(turns[1], turns[2], turns[3]) = F64Int(1)

\* C12: for every frequency f > 0 and every time t, triangle_wave(f, t)
\* equals triangle_wave(f, t + 1/f).
C12_Periodic ==
  ret.op = "triangle_wave" =>
    \A i, j \in DOMAIN ret.axis :
      OnePeriodApart(ret.frequency, ret.axis[i], ret.axis[j]) =>
        ret.value[i] = ret.value[j]

-----------------------------------------------------------------------------
(* The keys (Spec) *)

\* the name of the key with note index idx when the octave is oct
KeyName(idx, oct) == note_names[(idx % 12) + 1] \o ToString(oct + idx \div 12)

\* C13: a left-click on a key, whatever notes are held, displays the single
\* triangle wave of get_note_frequency(idx) at the current octave under the
\* label 'Note: <the key's name>'; the buffer has one sample for each of the
\* 2205 points of the time axis and its first sample is -1; at octave 4 the
\* frequency of key 0 is 16.35 * 2^4.
C13_LeftClickShowsNote ==
  [][\A key \in Keyboard :
       (key[2] \in UserKeys
          /\ play_note_left_click(key[2], widgets[key[1]].name, key[1]))
       => LET idx == key[2]
              frequency == RMul(BaseFreq(idx % 12), FromInt(2 ^ (octave + idx \div 12)))
          IN  /\ title' = "Note: " \o widgets[key[1]].text
              /\ title' = "Note: " \o KeyName(idx, octave)
              /\ current_wave' = [i \in DOMAIN t |-> triangle_sample(frequency, t[i])]
              /\ NumSamples = 2205
              /\ Len(current_wave') = (NumSamples - 1) \div KeyboardStride + 1
              /\ current_wave'[1] = <<-1, 1>>
              /\ (octave = 4 /\ idx = 0) => frequency = Rat(1635 * 2 ^ 4, 100)]_vars

\* E is held and C was left-clicked at octave 4: the display is C4 alone
C13_Witness ==
  /\ held_notes = {<<4, "E4">>}
  /\ octave = 4
  /\ title = "Note: C4"
  /\ current_wave = triangle_wave(<<1308, 5>>, t)
  /\ current_wave[1] = <<-1, 1>>

\* the colour a button is made with: setup_piano's white keys bg='white',
\* update_black_positions' black keys bg='#1a1a1a'
MadeColour(button) == IF button[1] = "white" THEN "white" ELSE "#1a1a1a"

\* C14: whenever release_note finishes for a key, the key's button shows its
\* resting colour, 'white' for the semitone classes {0,2,4,5,7,9,11} and
\* '#1a1a1a' for the others, which is the colour the button was made with.
C14_ReleaseRestoresColour ==
  [][\A key \in Keyboard :
       (/\ key[2] \in UserKeys
        /\ <<key[2], widgets[key[1]].name>> \in held_notes
        /\ release_note(key[2], key[1])
        /\ UNCHANGED <<t, octave, octave_var, black_buttons, rebuilds, ret>>)
       => /\ widgets'[key[1]].bg =
               IF (key[2] % 12) \in {0, 2, 4, 5, 7, 9, 11} THEN "white" ELSE "#1a1a1a"
          /\ widgets'[key[1]].bg = MadeColour(key[1])]_vars

\* C was held at octave 4 and again at octave 5, which shaded its white
\* button '#444444'; the release of one of the two has made it white again
C14_Witness ==
  /\ held_notes = {<<0, "C4">>}
  /\ octave = 5
  /\ title = "Note: C4"
  /\ widgets[WhiteButton(0)].bg = "white"

\* C15: from every reachable state, two right-clicks on the same key with no
\* other event in between restore held_notes, held_buttons and the key's
\* colour to their values before the first click.
C15_RightClickToggles ==
  \A key \in Keyboard :
    key[2] \in UserKeys =>
      \A once \in after_hold_note_right_click(held_notes, held_buttons, widgets,
                                              key[2], widgets[key[1]].name, key[1]) :
        \A twice \in after_hold_note_right_click(once.held_notes, once.held_buttons,
                                                 once.widgets, key[2],
                                                 once.widgets[key[1]].name, key[1]) :
          /\ twice.held_notes = held_notes
          /\ twice.held_buttons = held_buttons
          /\ twice.widgets[key[1]].bg = widgets[key[1]].bg

\* the shade hold_note_right_click gives a resting button
ShadedColour(button) == IF button[1] = "white" THEN "#cccccc" ELSE "#444444"

\* C16: in every reachable state a key's button is shaded, a white key
\* '#cccccc' and a black key '#444444', if and only if the key's note index
\* occurs in held_notes; an unheld key shows its resting colour, and a white
\* key is never '#444444'.
C16_ShadedIffHeld ==
  \A key \in Keyboard :
    LET bg == widgets[key[1]].bg
        held == \E pair \in held_notes : pair[1] = key[2]
    IN  /\ held => bg = ShadedColour(key[1])
        /\ ~held => bg = MadeColour(key[1])
        /\ key[1][1] = "white" => bg # "#444444"

\* C17: in every reachable state the keys of held_buttons are the note
\* indices that occur in held_notes.
C17_HeldButtonsMatchHeldNotes ==
  DOMAIN held_buttons = {pair[1] : pair \in held_notes}

\* C18: whenever a right-click refreshes the display from the held notes,
\* the name of every held pair (idx, name) is the key's name at the current
\* octave, i.e. the octave number in the name is octave + idx div 12, the
\* octave get_note_frequency synthesises the pair at.
C18_HeldNamesAreCurrent ==
  [][RightClick => \A pair \in held_notes' : pair[2] = KeyName(pair[1], octave')]_vars

====
